---- MODULE Spec2Model ----
(***************************************************************************)
(* Reservation state manager of src/app.py: the Flask handlers reserve,    *)
(* release, home and get_resources, the before_request hook                *)
(* require_login_and_cleanup, the state file helpers _read_state and       *)
(* _write_state, and the deadline functions _parse_hhmm and                *)
(* _midnight_default.                                                      *)
(*                                                                         *)
(* Instants are minutes since 00:00 of day 0 in APP_TZ.  Each request runs *)
(* on its own thread; the steps of a thread are the places where it takes  *)
(* _state_lock, reads the clock, or touches a file.                        *)
(***************************************************************************)
EXTENDS Integers, Sequences, FiniteSets, TLC

\* ---- bounds of the model ----
NumThreads == 2
NumInstants == 4

\* ---- program constants (datetime.time accepts hour 0..23, minute 0..59) ----
HoursPerDay == 24
MinutesPerHour == 60
MinutesPerDay == HoursPerDay * MinutesPerHour

Threads == 1..NumThreads
NoThread == 0

USERS == {"alice", "bob"}
NoUser == ""
RESOURCES == {"desk-1", "desk-2"}
NoRid == ""

\* Instants the clock is observed at: 07:59, 08:00, 23:59 and 24:00 of day 0,
\* then of day 1, ...: the minute before and the minute of an 08:00 deadline
\* and of midnight.
DayMinutes == <<479, 480, 1439, 1440>>
Instant(i) ==
  ((i - 1) \div Len(DayMinutes)) * MinutesPerDay + DayMinutes[((i - 1) % Len(DayMinutes)) + 1]
ClockSamples == {Instant(i) : i \in 1..NumInstants}

\* Deadline texts of the form field expires_hhmm, as sequences of characters.
\* The empty text stands for a missing or blank field (both are falsy).
NoText == << >>
ValidTexts == { <<"0","8",":","0","0">>, <<"0","0",":","0","0">> }
InvalidTexts == { <<"2","4",":","0","0">>, <<"0","8",":","6","0">>,
                  <<"0","8","0","0">>, <<"a",":","0","0">> }
Texts == ValidTexts \cup InvalidTexts \cup {NoText}

VARIABLES clock, fs, lock, pc, req, loc, out

vars == <<clock, fs, lock, pc, req, loc, out>>

\* ---- files ----
STATE_FILE == "state"
\* (mutant) the dump is written over the state file itself
TmpPath_InPlace == STATE_FILE
TmpPath == "tmp"
NoFile == [kind |-> "absent", data |-> << >>]
\* A file that a save was interrupted on: partly written, or written and
\* never renamed.  Nothing may rely on its content.
Torn == [kind |-> "torn", data |-> << >>]
Full(state) == [kind |-> "full", data |-> state]

\* _read_state: an absent file is the empty reservation mapping.
ReadState(f) == IF f.kind = "full" THEN f.data ELSE << >>

\* ---- dict helpers ----
\* (mutant) the new entry replaces the whole mapping
Put_Alone(d, k, v) == [x \in {k} |-> v]
Put(d, k, v) == [x \in (DOMAIN d) \cup {k} |-> IF x = k THEN v ELSE d[x]]
Pop(d, k) == [x \in (DOMAIN d) \ {k} |-> d[x]]

\* ---- datetime ----
DateOf(t) == t \div MinutesPerDay
IsoFormat(t) ==
  [date |-> t \div MinutesPerDay,
   hh |-> (t % MinutesPerDay) \div MinutesPerHour,
   mm |-> t % MinutesPerHour]
FromIsoFormat(s) == (s.date * HoursPerDay + s.hh) * MinutesPerHour + s.mm
Combine(date, hh, mm) == (date * HoursPerDay + hh) * MinutesPerHour + mm
\* (mutant) no range check on hour and minute
ValidTime_NoRange(hh, mm) == TRUE
ValidTime(hh, mm) == hh \in 0..(HoursPerDay - 1) /\ mm \in 0..(MinutesPerHour - 1)

\* ---- int(x) for x in hhmm.split(":", 1) ----
Digits == <<"0","1","2","3","4","5","6","7","8","9">>
IsDigit(c) == \E i \in 1..10 : Digits[i] = c
DigitVal(c) == (CHOOSE i \in 1..10 : Digits[i] = c) - 1
ColonAt(s) == {i \in 1..Len(s) : s[i] = ":"}
FirstColon(s) == CHOOSE i \in ColonAt(s) : \A j \in ColonAt(s) : i <= j
SplitColon(s) ==
  IF ColonAt(s) = {} THEN <<s>>
  ELSE <<SubSeq(s, 1, FirstColon(s) - 1), SubSeq(s, FirstColon(s) + 1, Len(s))>>
Unsigned(x) == IF x # << >> /\ x[1] \in {"-", "+"} THEN Tail(x) ELSE x
IsInt(x) == Unsigned(x) # << >> /\ \A i \in 1..Len(Unsigned(x)) : IsDigit(Unsigned(x)[i])
RECURSIVE NatOf(_)
NatOf(x) == IF x = << >> THEN 0 ELSE 10 * NatOf(SubSeq(x, 1, Len(x) - 1)) + DigitVal(x[Len(x)])
IntOf(x) == IF x[1] = "-" THEN 0 - NatOf(Unsigned(x)) ELSE NatOf(Unsigned(x))
\* hh, mm = [int(x) ...]: two parts, both integers; otherwise ValueError.
ParsesInts(s) == Len(SplitColon(s)) = 2 /\ IsInt(SplitColon(s)[1]) /\ IsInt(SplitColon(s)[2])
HourOf(s) == IntOf(SplitColon(s)[1])
MinuteOf(s) == IntOf(SplitColon(s)[2])

\* _parse_hhmm lines 56-57: a time that is not after now means tomorrow.
RollForward(dt, now) == IF dt <= now THEN dt + MinutesPerDay ELSE dt

\* _midnight_default
MidnightDefault(now) == Combine(DateOf(now) + 1, 0, 0)

\* _cleanup_expired
\* An entry without expires_at (info.get gives None), and one whose
\* expires_at is a text that datetime.fromisoformat rejects (hour 24).
NoExpiry == [date |-> -1, hh |-> 0, mm |-> 0]
BadExpiry == [date |-> 0, hh |-> HoursPerDay, mm |-> 0]
\* (mutant) every expires_at is taken for a datetime
ParsesIso_Always(exp) == TRUE
\* lines 74-80: exp_dt is a datetime, not None
ParsesIso(exp) ==
  /\ exp.date >= 0
  /\ exp.hh \in 0..(HoursPerDay - 1)
  /\ exp.mm \in 0..(MinutesPerHour - 1)
\* (mutant) line 81 with the comparison turned round
Expired_Reversed(info, now) ==
  ParsesIso(info.expires_at) /\ FromIsoFormat(info.expires_at) >= now
\* (mutant) line 81 with < for <=
Expired_Strict(info, now) ==
  ParsesIso(info.expires_at) /\ FromIsoFormat(info.expires_at) < now
Expired(info, now) ==
  ParsesIso(info.expires_at) /\ FromIsoFormat(info.expires_at) <= now
CleanupExpired(res, now) == [r \in {x \in DOMAIN res : ~Expired(res[x], now)} |-> res[r]]
\* (mutant) _cleanup_expired reports a change whatever it did
Changed_Always(state, swept) == TRUE
\* the changed flag of _cleanup_expired: set when an entry was popped
Changed(state, swept) == DOMAIN swept # DOMAIN state

\* ---- guards of the handlers ----
\* (mutant) the with block excludes nobody
LockFree_NoExclusion == TRUE
LockFree == lock = NoThread
\* (mutant) reserve does not look for an existing entry
IsReserved_Unchecked(rid, reservations) == FALSE
IsReserved(rid, reservations) == rid \in DOMAIN reservations
\* (mutant) release does not compare the user
IsOwner_AnyUser(resv, user) == TRUE
IsOwner(resv, user) == resv.user = user

NoLoc == [state |-> << >>, today |-> 0, exp_dt |-> 0]
NoReq == [op |-> "none", user |-> NoUser, rid |-> NoRid, text |-> NoText]

Init ==
  /\ clock = Instant(1)
  /\ fs = [f \in {STATE_FILE, TmpPath} |-> NoFile]
  /\ lock = NoThread
  /\ pc = [t \in Threads |-> "b_wait"]
  /\ req = [t \in Threads |-> NoReq]
  /\ loc = [t \in Threads |-> NoLoc]
  /\ out = [t \in Threads |-> "none"]

\* A state file that was not written by this program alone (edited by hand,
\* or left by another version): _read_state takes it as it is.  Every
\* resource holds an entry, one without expires_at and the others with an
\* expires_at that does not parse.
EditedState ==
  LET first == CHOOSE r \in RESOURCES : TRUE
      owner == CHOOSE u \in USERS : TRUE
  IN [r \in RESOURCES |->
        [user |-> owner,
         reserved_at |-> IsoFormat(Instant(1)),
         expires_at |-> IF r = first THEN NoExpiry ELSE BadExpiry]]

EditedInit ==
  /\ clock = Instant(1)
  /\ fs = [f \in {STATE_FILE, TmpPath} |-> IF f = STATE_FILE THEN Full(EditedState) ELSE NoFile]
  /\ lock = NoThread
  /\ pc = [t \in Threads |-> "b_wait"]
  /\ req = [t \in Threads |-> NoReq]
  /\ loc = [t \in Threads |-> NoLoc]
  /\ out = [t \in Threads |-> "none"]

\* The clock moves forward to the next instant it is observed at.
Tick ==
  /\ \E c \in ClockSamples :
       /\ c > clock
       /\ \A d \in ClockSamples : d > clock => c <= d
       /\ clock' = c
  /\ UNCHANGED <<fs, lock, pc, req, loc, out>>

\* require_login_and_cleanup, lines 101-104, for the next request of a
\* logged-in user that thread t serves (a request without a session user is
\* redirected to the login page at line 99 and touches nothing): take the
\* lock, read the state, _cleanup_expired.  The hook does not look at the
\* form: the view function that runs after it reads its inputs.
require_login_and_cleanup(t) ==
  /\ pc[t] = "b_wait"
  /\ LockFree
  /\ lock' = t
  /\ LET state == ReadState(fs[STATE_FILE])
         swept == CleanupExpired(state, clock)
     IN /\ loc' = [loc EXCEPT ![t].state = swept]
        /\ pc' = [pc EXCEPT ![t] = IF Changed(state, swept) THEN "b_write" ELSE "b_unlock"]
  /\ UNCHANGED <<clock, fs, req, out>>

\* _write_state, first half: dump the state to the temporary file.
WriteTmp(t) ==
  /\ pc[t] \in {"b_write", "h_write"}
  /\ fs' = [fs EXCEPT ![TmpPath] = Full(loc[t].state)]
  /\ pc' = [pc EXCEPT ![t] = IF pc[t] = "b_write" THEN "b_replace" ELSE "h_replace"]
  /\ UNCHANGED <<clock, lock, req, loc, out>>

\* _write_state, first half failing (disk full, permission denied): the
\* exception leaves the with block and the request fails.
WriteTmpFails(t) ==
  /\ pc[t] \in {"b_write", "h_write"}
  /\ fs' = [fs EXCEPT ![TmpPath] = Torn]
  /\ pc' = [pc EXCEPT ![t] = IF pc[t] = "b_write" THEN "b_fail" ELSE "h_unlock"]
  /\ out' = [out EXCEPT ![t] = "StorageFailure"]
  /\ UNCHANGED <<clock, lock, req, loc>>

\* _write_state, second half: os.replace(tmp, STATE_FILE).
ReplaceFile(t) ==
  /\ pc[t] \in {"b_replace", "h_replace"}
  /\ fs' = [f \in DOMAIN fs |-> IF f = STATE_FILE THEN fs[TmpPath]
                                ELSE IF f = TmpPath THEN NoFile ELSE fs[f]]
  /\ pc' = [pc EXCEPT ![t] = IF pc[t] = "b_replace" THEN "b_unlock" ELSE "h_unlock"]
  /\ out' = [out EXCEPT ![t] = IF pc[t] = "h_replace" THEN "Ok" ELSE out[t]]
  /\ UNCHANGED <<clock, lock, req, loc>>

\* End of the with block of before_request; the view function runs next.
\* reserve and release answer 400 before taking the lock when resource_id
\* is missing (lines 151-152, 182-183).  A failed cleanup write ends the
\* request.
BeforeUnlock(t) ==
  /\ pc[t] \in {"b_unlock", "b_fail"}
  /\ lock' = NoThread
  /\ \E rid \in RESOURCES \cup {NoRid} :
       IF pc[t] = "b_fail" \/ rid = NoRid
       THEN pc' = [pc EXCEPT ![t] = "b_wait"]
       ELSE pc' = [pc EXCEPT ![t] = "h_wait"]
  /\ loc' = [loc EXCEPT ![t] = NoLoc]
  /\ out' = [out EXCEPT ![t] = "none"]
  /\ UNCHANGED <<clock, fs, req>>

\* reserve, lines 154-167: take the lock, read the state, reject a resource
\* that is in the mapping; int() of the two parts of the text (line 52) is
\* the first thing _parse_hhmm does.
reserve(t) ==
  /\ pc[t] = "h_wait"
  /\ \E rid \in RESOURCES, user \in USERS, text \in Texts :
       req' = [req EXCEPT ![t] = [op |-> "reserve", user |-> user, rid |-> rid, text |-> text]]
  /\ LockFree
  /\ lock' = t
  /\ LET state == ReadState(fs[STATE_FILE])
     IN /\ loc' = [loc EXCEPT ![t].state = state]
        /\ IF IsReserved(req'[t].rid, state)
           THEN pc' = [pc EXCEPT ![t] = "h_unlock"]
                /\ out' = [out EXCEPT ![t] = "AlreadyReserved"]
           ELSE IF req'[t].text = NoText
           THEN pc' = [pc EXCEPT ![t] = "r_midnight"] /\ out' = out
           ELSE IF ParsesInts(req'[t].text)
           THEN pc' = [pc EXCEPT ![t] = "r_today"] /\ out' = out
           ELSE pc' = [pc EXCEPT ![t] = "h_unlock"]
                /\ out' = [out EXCEPT ![t] = "InvalidDeadline"]
  /\ UNCHANGED <<clock, fs>>

\* _parse_hhmm line 53: today = _iso_now().date()
parse_hhmm_today(t) ==
  /\ pc[t] = "r_today"
  /\ loc' = [loc EXCEPT ![t].today = DateOf(clock)]
  /\ pc' = [pc EXCEPT ![t] = "r_cmp"]
  /\ UNCHANGED <<clock, fs, lock, req, out>>

\* _parse_hhmm lines 54-60: dtime(hh, mm) raises outside its ranges and the
\* function returns None; otherwise the time is compared with a second
\* reading of the clock.
parse_hhmm_compare(t) ==
  /\ pc[t] = "r_cmp"
  /\ LET hh == HourOf(req[t].text)
         mm == MinuteOf(req[t].text)
     IN IF ValidTime(hh, mm)
        THEN /\ loc' = [loc EXCEPT ![t].exp_dt = RollForward(Combine(loc[t].today, hh, mm), clock)]
             /\ pc' = [pc EXCEPT ![t] = "r_now"]
             /\ out' = out
        ELSE /\ loc' = loc
             /\ pc' = [pc EXCEPT ![t] = "h_unlock"]
             /\ out' = [out EXCEPT ![t] = "InvalidDeadline"]
  /\ UNCHANGED <<clock, fs, lock, req>>

\* reserve line 167: exp_dt = _midnight_default()
midnight_default(t) ==
  /\ pc[t] = "r_midnight"
  /\ loc' = [loc EXCEPT ![t].exp_dt = MidnightDefault(clock)]
  /\ pc' = [pc EXCEPT ![t] = "r_now"]
  /\ UNCHANGED <<clock, fs, lock, req, out>>

\* reserve lines 168-173: now = _iso_now(); reservations[rid] = {...}
NewReservation(user, now, exp_dt) ==
  [user |-> user, reserved_at |-> IsoFormat(now), expires_at |-> IsoFormat(exp_dt)]

reserve_insert(t) ==
  /\ pc[t] = "r_now"
  /\ loc' = [loc EXCEPT ![t].state =
               Put(loc[t].state, req[t].rid, NewReservation(req[t].user, clock, loc[t].exp_dt))]
  /\ pc' = [pc EXCEPT ![t] = "h_write"]
  /\ UNCHANGED <<clock, fs, lock, req, out>>

\* release, lines 184-193.
release(t) ==
  /\ pc[t] = "h_wait"
  /\ \E rid \in RESOURCES, user \in USERS :
       req' = [req EXCEPT ![t] = [op |-> "release", user |-> user, rid |-> rid, text |-> NoText]]
  /\ LockFree
  /\ lock' = t
  /\ LET state == ReadState(fs[STATE_FILE])
         rid == req'[t].rid
     IN IF IsReserved(rid, state)
        THEN IF IsOwner(state[rid], req'[t].user)
             THEN /\ loc' = [loc EXCEPT ![t].state = Pop(state, rid)]
                  /\ pc' = [pc EXCEPT ![t] = "h_write"]
                  /\ out' = out
             ELSE /\ loc' = [loc EXCEPT ![t].state = state]
                  /\ pc' = [pc EXCEPT ![t] = "h_unlock"]
                  /\ out' = [out EXCEPT ![t] = "NotOwner"]
        ELSE /\ loc' = [loc EXCEPT ![t].state = state]
             /\ pc' = [pc EXCEPT ![t] = "h_unlock"]
             /\ out' = [out EXCEPT ![t] = "NotReserved"]
  /\ UNCHANGED <<clock, fs>>

\* home lines 127-129 and get_resources lines 200-202: read the mapping
\* under the lock; the view is built from it.
ReadReservations(t, op) ==
  /\ pc[t] = "h_wait"
  /\ \E user \in USERS :
       req' = [req EXCEPT ![t] = [op |-> op, user |-> user, rid |-> NoRid, text |-> NoText]]
  /\ LockFree
  /\ lock' = t
  /\ loc' = [loc EXCEPT ![t].state = ReadState(fs[STATE_FILE])]
  /\ pc' = [pc EXCEPT ![t] = "h_unlock"]
  /\ out' = [out EXCEPT ![t] = "Listed"]
  /\ UNCHANGED <<clock, fs>>

home(t) == ReadReservations(t, "home")

get_resources(t) == ReadReservations(t, "get_resources")

\* (mutant) a view function that returns without giving the lock back
HandlerUnlock_KeepsLock(t) ==
  /\ pc[t] = "h_unlock"
  /\ pc' = [pc EXCEPT ![t] = "b_wait"]
  /\ loc' = [loc EXCEPT ![t] = NoLoc]
  /\ req' = [req EXCEPT ![t] = NoReq]
  /\ out' = [out EXCEPT ![t] = "none"]
  /\ UNCHANGED <<clock, fs, lock>>

\* End of the with block of a view function.
HandlerUnlock(t) ==
  /\ pc[t] = "h_unlock"
  /\ lock' = NoThread
  /\ pc' = [pc EXCEPT ![t] = "b_wait"]
  /\ loc' = [loc EXCEPT ![t] = NoLoc]
  /\ req' = [req EXCEPT ![t] = NoReq]
  /\ out' = [out EXCEPT ![t] = "none"]
  /\ UNCHANGED <<clock, fs>>

\* The process dies and is started again: every request in flight is lost,
\* the lock is new, the files stay.  A save that was under way leaves the
\* temporary file behind, partly written or not yet renamed.
Saving == \E t \in Threads : pc[t] \in {"b_write", "b_replace", "h_write", "h_replace"}
Crash ==
  /\ \E t \in Threads : pc[t] # "b_wait"
  /\ fs' = [fs EXCEPT ![TmpPath] = IF Saving THEN Torn ELSE fs[TmpPath]]
  /\ lock' = NoThread
  /\ pc' = [t \in Threads |-> "b_wait"]
  /\ req' = [t \in Threads |-> NoReq]
  /\ loc' = [t \in Threads |-> NoLoc]
  /\ out' = [t \in Threads |-> "none"]
  /\ UNCHANGED clock

Next ==
  \/ Tick
  \/ Crash
  \/ \E t \in Threads : require_login_and_cleanup(t)
  \/ \E t \in Threads : WriteTmp(t)
  \/ \E t \in Threads : WriteTmpFails(t)
  \/ \E t \in Threads : ReplaceFile(t)
  \/ \E t \in Threads : BeforeUnlock(t)
  \/ \E t \in Threads : reserve(t)
  \/ \E t \in Threads : parse_hhmm_today(t)
  \/ \E t \in Threads : parse_hhmm_compare(t)
  \/ \E t \in Threads : midnight_default(t)
  \/ \E t \in Threads : reserve_insert(t)
  \/ \E t \in Threads : release(t)
  \/ \E t \in Threads : home(t)
  \/ \E t \in Threads : get_resources(t)
  \/ \E t \in Threads : HandlerUnlock(t)

Spec == Init /\ [][Next]_vars

\* The program started on the edited state file.
EditedSpec == EditedInit /\ [][Next]_vars

\* The steps of thread t inside a with block: the thread that holds the lock
\* is runnable until it leaves the block.
InLock(t) ==
  \/ WriteTmp(t) \/ WriteTmpFails(t) \/ ReplaceFile(t) \/ BeforeUnlock(t)
  \/ parse_hhmm_today(t) \/ parse_hhmm_compare(t) \/ midnight_default(t)
  \/ reserve_insert(t) \/ HandlerUnlock(t)

\* Thread t takes the lock, for before_request or for its view function.
Acquire(t) ==
  \/ require_login_and_cleanup(t)
  \/ reserve(t) \/ release(t) \/ home(t) \/ get_resources(t)

\* Fair scheduling: the thread inside a with block keeps running, and a
\* thread that waits at a with statement is not passed over for ever when
\* the lock is free again and again.
FairSpec ==
  /\ Spec
  /\ WF_vars(\E t \in Threads : InLock(t))
  /\ \A t \in Threads : SF_vars(Acquire(t))

(***************************************************************************)
(* Properties                                                              *)
(***************************************************************************)

\* The reservation mapping a _read_state would return now.
Persisted == ReadState(fs[STATE_FILE])

\* Thread t enters the with block of its view function in this step.
Enters(t) == pc[t] = "h_wait" /\ lock' = t /\ pc'[t] # "h_wait"
EntersAs(t, op) == Enters(t) /\ req'[t].op = op

\* Thread t completes os.replace of a view function's save in this step.
Commits(t) == pc[t] = "h_replace" /\ pc'[t] = "h_unlock"

ExpiresAt(info) == FromIsoFormat(info.expires_at)
ReservedAt(info) == FromIsoFormat(info.reserved_at)

\* C1 Mutual exclusion: an entry of the persisted mapping is never replaced
\* by another entry (the holder is not overwritten); a reserve that finds
\* the resource in the mapping is rejected as AlreadyReserved; and a reserve
\* that succeeds adds its entry to a mapping that does not hold the resource,
\* so of the reserves racing for a free resource one wins and the ones that
\* enter after it are rejected.
C1_MutualExclusion ==
  [][ /\ \A r \in DOMAIN Persisted : r \in DOMAIN Persisted' => Persisted'[r] = Persisted[r]
      /\ \A t \in Threads :
           (EntersAs(t, "reserve") /\ req'[t].rid \in DOMAIN Persisted)
             => out'[t] = "AlreadyReserved" /\ pc'[t] = "h_unlock"
      /\ \A t \in Threads :
           (Commits(t) /\ req[t].op = "reserve")
             => /\ req[t].rid \notin DOMAIN Persisted
                /\ req[t].rid \in DOMAIN Persisted'
                /\ Persisted'[req[t].rid].user = req[t].user
                /\ out'[t] = "Ok"
    ]_vars

\* C1 witness: one reserve has won the resource while another request that
\* passed before_request is waiting for the lock of its view function.
C1_Witness ==
  \E t, u \in Threads :
    /\ t # u
    /\ pc[t] = "h_unlock" /\ req[t].op = "reserve" /\ out[t] = "Ok"
    /\ req[t].rid \in DOMAIN Persisted
    /\ pc[u] = "h_wait"

\* C2 Ownership: a release by a user other than the one recorded in the
\* entry is answered NotOwner and the state file stays as it is for the
\* whole time the lock is held; an entry leaves the persisted mapping only
\* through a release by its own user or through the cleanup of
\* before_request once its expiry instant has been reached.
C2_Ownership ==
  [][ /\ \A t \in Threads :
           (EntersAs(t, "release") /\ req'[t].rid \in DOMAIN Persisted
              /\ Persisted[req'[t].rid].user # req'[t].user)
             => /\ out'[t] = "NotOwner" /\ pc'[t] = "h_unlock"
                /\ fs'[STATE_FILE] = fs[STATE_FILE]
      /\ \A t \in Threads :
           (lock = t /\ out[t] = "NotOwner") => fs'[STATE_FILE] = fs[STATE_FILE]
      /\ \A r \in DOMAIN Persisted :
           (r \notin DOMAIN Persisted' \/ Persisted'[r] # Persisted[r])
             => \E t \in Threads :
                  \/ /\ Commits(t) /\ req[t].op = "release" /\ req[t].rid = r
                     /\ req[t].user = Persisted[r].user
                  \/ /\ pc[t] = "b_replace" /\ pc'[t] = "b_unlock"
                     /\ ExpiresAt(Persisted[r]) <= clock
    ]_vars

\* C2 witness: a release by another user has been answered NotOwner and the
\* entry of the holder is in the state file.
C2_Witness ==
  \E t \in Threads :
    /\ pc[t] = "h_unlock" /\ req[t].op = "release" /\ out[t] = "NotOwner"
    /\ req[t].rid \in DOMAIN Persisted
    /\ Persisted[req[t].rid].user # req[t].user

\* C3 Expiry correctness: the mapping a view function (home, get_resources,
\* reserve, release) reads holds no entry whose expiry instant has been
\* reached at the instant it reads it, and the cleanup keeps every entry
\* whose expiry instant is still ahead.
C3_ExpiryCorrectness ==
  [][ /\ \A t \in Threads :
           Enters(t) => \A r \in DOMAIN Persisted : ExpiresAt(Persisted[r]) > clock
      /\ \A t \in Threads :
           (pc[t] = "b_wait" /\ lock' = t)
             => \A r \in DOMAIN Persisted :
                  ExpiresAt(Persisted[r]) > clock => r \in DOMAIN loc'[t].state
    ]_vars

\* C4 Reuse after expiry: a reserve that reads the mapping at an instant at
\* or after the expiry instant of the entry on its resource is not rejected
\* as AlreadyReserved.
C4_ReuseAfterExpiry ==
  [][ \A t \in Threads :
        (EntersAs(t, "reserve") /\ req'[t].rid \in DOMAIN Persisted
           /\ ExpiresAt(Persisted[req'[t].rid]) <= clock)
          => out'[t] # "AlreadyReserved"
    ]_vars

\* A live reservation: an entry whose expiry instant is still ahead.
Live(reservations, rid, now) ==
  rid \in DOMAIN reservations /\ ExpiresAt(reservations[rid]) > now

\* C5 Idempotent release: a release on a resource that has no live
\* reservation is answered NotReserved and leaves the state file as it is.
C5_IdempotentRelease ==
  [][ /\ \A t \in Threads :
           (EntersAs(t, "release") /\ ~Live(Persisted, req'[t].rid, clock))
             => out'[t] = "NotReserved" /\ pc'[t] = "h_unlock"
      /\ \A t \in Threads :
           (lock = t /\ out[t] = "NotReserved") => fs'[STATE_FILE] = fs[STATE_FILE]
    ]_vars

\* C6 Rejected reserve: a reserve on a resource that has a live reservation
\* is answered AlreadyReserved, and the state file (the entry of the
\* resource and the entries of all other resources) stays as it is for the
\* whole time the lock is held.
C6_AlreadyReservedNoChange ==
  [][ /\ \A t \in Threads :
           (EntersAs(t, "reserve") /\ Live(Persisted, req'[t].rid, clock))
             => /\ out'[t] = "AlreadyReserved" /\ pc'[t] = "h_unlock"
                /\ loc'[t].state = Persisted
                /\ fs'[STATE_FILE] = fs[STATE_FILE]
      /\ \A t \in Threads :
           (lock = t /\ out[t] = "AlreadyReserved")
             => fs'[STATE_FILE] = fs[STATE_FILE] /\ loc'[t].state \in {loc[t].state, << >>}
    ]_vars

\* C6 witness: a reserve on a resource with a live reservation has been
\* rejected while the other resource is reserved as well.
C6_Witness ==
  \E t \in Threads :
    /\ pc[t] = "h_unlock" /\ req[t].op = "reserve" /\ out[t] = "AlreadyReserved"
    /\ Live(Persisted, req[t].rid, clock)
    /\ DOMAIN Persisted = RESOURCES

\* A deadline text that is not an hour and a minute: no colon, a part that
\* is not an integer, an hour outside 0..23 or a minute outside 0..59.
Malformed(text) ==
  \/ ColonAt(text) = {}
  \/ ~IsInt(SubSeq(text, 1, FirstColon(text) - 1))
  \/ ~IsInt(SubSeq(text, FirstColon(text) + 1, Len(text)))
  \/ HourOf(text) \notin 0..23
  \/ MinuteOf(text) \notin 0..59

\* C7 Invalid deadline: a reserve on a resource that is not in the mapping,
\* with a deadline text that is not an hour and a minute, never reaches the
\* insertion or the save; it ends as InvalidDeadline with the state file as
\* it was read.
C7_InvalidDeadlineRejected ==
  \A t \in Threads :
    (lock = t /\ req[t].op = "reserve" /\ req[t].text # NoText
       /\ Malformed(req[t].text) /\ out[t] # "AlreadyReserved")
      => /\ pc[t] \in {"r_today", "r_cmp", "h_unlock"}
         /\ pc[t] = "h_unlock" => out[t] = "InvalidDeadline"
         /\ req[t].rid \notin DOMAIN Persisted
         /\ Persisted = loc[t].state

\* C7 witness: a reserve with hour 24 on a free resource has been rejected
\* while the other resource is reserved.
C7_Witness ==
  \E t \in Threads :
    /\ pc[t] = "h_unlock" /\ req[t].op = "reserve" /\ out[t] = "InvalidDeadline"
    /\ req[t].text = <<"2","4",":","0","0">>
    /\ Malformed(req[t].text)
    /\ req[t].rid \notin DOMAIN Persisted
    /\ Persisted # << >>

\* C8 Snapshot atomicity: the state file is never a partly written file, and
\* it changes only in the step that renames a completely written temporary
\* file over it; every other step, a crash at any point of a save included,
\* leaves it as it was before the save began.
C8_SnapshotAtomicity ==
  [][ /\ fs'[STATE_FILE].kind # "torn"
      /\ fs'[STATE_FILE] # fs[STATE_FILE]
           => \E t \in Threads :
                /\ pc[t] \in {"b_replace", "h_replace"}
                /\ pc'[t] \in {"b_unlock", "h_unlock"}
                /\ fs'[STATE_FILE] = Full(loc[t].state)
    ]_vars

\* C8 witness: the temporary file holds the new snapshot, the rename has not
\* happened, and the state file holds the snapshot from before the save.
C8_Witness ==
  \E t \in Threads :
    /\ pc[t] = "h_replace"
    /\ fs[TmpPath] = Full(loc[t].state)
    /\ fs[STATE_FILE].kind = "full"
    /\ fs[STATE_FILE] # fs[TmpPath]
    /\ Persisted # << >>

\* C9 Linearization: while a thread holds the lock, the mapping it works on
\* is the persisted mapping with only its own operation applied: the
\* mapping of the previous lock holder as read, with the expired entries
\* removed (cleanup), the entry of the request added (reserve) or removed
\* (release); after its rename the state file is that mapping.
Applied(t) ==
  LET m == loc[t].state
      rid == req[t].rid
  IN CASE pc[t] \in {"b_write", "b_replace", "b_fail"} ->
            /\ DOMAIN m \subseteq DOMAIN Persisted
            /\ \A r \in DOMAIN m : m[r] = Persisted[r]
            /\ \A r \in DOMAIN Persisted \ DOMAIN m : ExpiresAt(Persisted[r]) <= clock
       [] pc[t] \in {"h_write", "h_replace"} /\ req[t].op = "reserve" ->
            /\ rid \notin DOMAIN Persisted
            /\ rid \in DOMAIN m
            /\ m = Put(Persisted, rid, m[rid])
       [] pc[t] \in {"h_write", "h_replace"} /\ req[t].op = "release" ->
            /\ rid \in DOMAIN Persisted
            /\ m = Pop(Persisted, rid)
       [] pc[t] = "h_unlock" /\ out[t] = "StorageFailure" ->
            \/ rid \notin DOMAIN Persisted /\ rid \in DOMAIN m /\ m = Put(Persisted, rid, m[rid])
            \/ rid \in DOMAIN Persisted /\ m = Pop(Persisted, rid)
       [] OTHER -> m = Persisted

C9_Linearization == \A t \in Threads : lock = t => Applied(t)

\* C9 witness: a reserve has been renamed into place on top of the entry
\* that an earlier lock holder wrote, while another request is in flight.
C9_Witness ==
  \E t, u \in Threads :
    /\ t # u
    /\ pc[t] = "h_unlock" /\ req[t].op = "reserve" /\ out[t] = "Ok"
    /\ DOMAIN Persisted = RESOURCES
    /\ pc[u] = "h_wait"

\* C10 Every entry of the persisted mapping expires strictly after the
\* instant it was reserved at.
C10_ExpiresAfterReserved ==
  \A r \in DOMAIN Persisted : ExpiresAt(Persisted[r]) > ReservedAt(Persisted[r])

\* C11 Deadline roll-forward: the deadline _parse_hhmm returns for a valid
\* hh:mm is hh:mm on the date of now when that is strictly later than now,
\* and hh:mm one day later otherwise; it is strictly greater than now and at
\* most 24 hours after it.  now is the instant the function compares with
\* and returns at.
C11_RollForward ==
  [][ \A t \in Threads :
        (pc[t] = "r_cmp" /\ pc'[t] = "r_now")
          => LET now == clock
                 sameDay == Combine(DateOf(now), HourOf(req[t].text), MinuteOf(req[t].text))
                 dt == loc'[t].exp_dt
             IN /\ dt = (IF sameDay > now THEN sameDay ELSE sameDay + MinutesPerDay)
                /\ dt > now
                /\ dt <= now + MinutesPerDay
    ]_vars

\* C12 Default deadline: the entry stored by a reserve without a deadline
\* text expires at 00:00 of the calendar day that follows the date of its
\* reserved_at, which is strictly after reserved_at and at most 24 hours
\* after it.
C12_DefaultDeadline ==
  \A t \in Threads :
    (pc[t] = "h_unlock" /\ req[t].op = "reserve" /\ out[t] = "Ok" /\ req[t].text = NoText)
      => LET info == Persisted[req[t].rid]
         IN /\ ExpiresAt(info) = Combine(DateOf(ReservedAt(info)) + 1, 0, 0)
            /\ ExpiresAt(info) > ReservedAt(info)
            /\ ExpiresAt(info) <= ReservedAt(info) + MinutesPerDay

\* C13 Single lock hold: between the sweep of a request and the point where
\* its view function checks or reads the reservations, the request keeps the
\* lock, no step changes the state file, and no entry of the persisted
\* mapping that was unexpired comes to be expired by the clock.
C13_SingleLockHold ==
  [][ \A t \in Threads :
        pc[t] = "h_wait"
          => /\ lock = t
             /\ fs'[STATE_FILE] = fs[STATE_FILE]
             /\ \A r \in DOMAIN Persisted :
                  ExpiresAt(Persisted[r]) > clock => ExpiresAt(Persisted[r]) > clock'
    ]_vars

\* C14 Reservation life cycle: in every step the entry of a resource in the
\* persisted mapping either stays as it is (same user, reserved_at and
\* expires_at), or appears through a reserve of that resource that is
\* answered Ok, or disappears through a release by the user it records or
\* through the cleanup once its expiry instant has been reached.
C14_LifeCycle ==
  [][ \A r \in RESOURCES :
        /\ (r \notin DOMAIN Persisted /\ r \in DOMAIN Persisted')
             => \E t \in Threads :
                  /\ Commits(t) /\ req[t].op = "reserve" /\ req[t].rid = r
                  /\ out'[t] = "Ok"
                  /\ Persisted'[r].user = req[t].user
        /\ (r \in DOMAIN Persisted /\ r \notin DOMAIN Persisted')
             => \E t \in Threads :
                  \/ /\ Commits(t) /\ req[t].op = "release" /\ req[t].rid = r
                     /\ req[t].user = Persisted[r].user
                     /\ out'[t] = "Ok"
                  \/ /\ pc[t] = "b_replace" /\ pc'[t] = "b_unlock"
                     /\ clock >= ExpiresAt(Persisted[r])
        /\ (r \in DOMAIN Persisted /\ r \in DOMAIN Persisted')
             => /\ Persisted'[r].user = Persisted[r].user
                /\ Persisted'[r].reserved_at = Persisted[r].reserved_at
                /\ Persisted'[r].expires_at = Persisted[r].expires_at
    ]_vars

\* C14 witness: a release by the holder has taken its entry out of the state
\* file while the entry of another resource stays in it.
C14_Witness ==
  \E t \in Threads :
    /\ pc[t] = "h_unlock" /\ req[t].op = "release" /\ out[t] = "Ok"
    /\ req[t].rid \notin DOMAIN Persisted
    /\ DOMAIN Persisted # {}

\* C15 Sweep: _cleanup_expired at instant now removes exactly the entries
\* whose expiry instant is at or before now (one equal to now is removed,
\* one after now is kept, as it was), and it reports a change exactly when
\* it removed at least one entry.
C15_Sweep ==
  [][ \A t \in Threads :
        (pc[t] = "b_wait" /\ lock' = t)
          => LET before == Persisted
                 after == loc'[t].state
                 now == clock
             IN /\ DOMAIN after = {r \in DOMAIN before : ExpiresAt(before[r]) > now}
                /\ \A r \in DOMAIN after : after[r] = before[r]
                /\ pc'[t] \in {"b_write", "b_unlock"}
                /\ pc'[t] = "b_write" <=> \E r \in DOMAIN before : ExpiresAt(before[r]) <= now
    ]_vars

\* C15 witness: a sweep has removed an entry that expires at the very
\* instant of the sweep and has kept an entry that expires later.
C15_Witness ==
  \E t \in Threads :
    /\ pc[t] = "b_write"
    /\ \E r \in DOMAIN Persisted :
         r \notin DOMAIN loc[t].state /\ ExpiresAt(Persisted[r]) = clock
    /\ \E r \in DOMAIN loc[t].state : ExpiresAt(loc[t].state[r]) > clock

\* C16 ListResources frame: the sweep that precedes home and get_resources
\* keeps every unexpired entry as it is; it goes on to save only when it
\* removed at least one expired entry, and when no entry is expired it
\* performs no save and the files stay untouched until it unlocks; home and
\* get_resources themselves write nothing for the whole time they hold the
\* lock.
C16_ListFrame ==
  [][ \A t \in Threads :
        /\ (pc[t] = "b_wait" /\ lock' = t)
             => /\ \A r \in DOMAIN Persisted :
                     ExpiresAt(Persisted[r]) > clock
                       => r \in DOMAIN loc'[t].state /\ loc'[t].state[r] = Persisted[r]
                /\ pc'[t] = "b_write"
                     => \E r \in DOMAIN Persisted : ExpiresAt(Persisted[r]) <= clock
                /\ (\A r \in DOMAIN Persisted : ExpiresAt(Persisted[r]) > clock)
                     => pc'[t] = "b_unlock" /\ fs' = fs
        /\ (pc[t] = "b_unlock" /\ lock = t) => fs' = fs
        /\ (pc[t] = "b_replace" /\ pc'[t] = "b_unlock")
             => /\ Persisted' = loc[t].state
                /\ \A r \in DOMAIN Persisted' : Persisted'[r] = Persisted[r]
        /\ (EntersAs(t, "home") \/ EntersAs(t, "get_resources"))
             => fs' = fs /\ loc'[t].state = Persisted
        /\ (lock = t /\ req[t].op \in {"home", "get_resources"}) => fs' = fs
    ]_vars

\* C16 witness: get_resources has read a mapping that holds an unexpired
\* entry, after a sweep that found nothing to remove, and no temporary file
\* has been written.
C16_Witness ==
  \E t \in Threads :
    /\ pc[t] = "h_unlock" /\ req[t].op = "get_resources" /\ out[t] = "Listed"
    /\ DOMAIN loc[t].state # {}
    /\ \A r \in DOMAIN loc[t].state : ExpiresAt(loc[t].state[r]) > clock
    /\ loc[t].state = Persisted
    /\ fs[TmpPath] = NoFile

\* C17 Successful reserve: a reserve of a resource that has no entry adds to
\* the mapping it read exactly one entry, for that resource, with the
\* caller as user, the instant of the insertion as reserved_at and the
\* deadline it computed as expires_at; its save puts that mapping in the
\* state file, where the entries of the other resources are as before, and
\* the request is answered Ok.
C17_ReserveEffect ==
  [][ \A t \in Threads :
        /\ (pc[t] = "r_now" /\ pc'[t] = "h_write")
             => LET old == loc[t].state
                    new == loc'[t].state
                    rid == req[t].rid
                IN /\ rid \notin DOMAIN old
                   /\ DOMAIN new = DOMAIN old \cup {rid}
                   /\ \A r \in DOMAIN old : new[r] = old[r]
                   /\ new[rid].user = req[t].user
                   /\ ReservedAt(new[rid]) = clock
                   /\ ExpiresAt(new[rid]) = loc[t].exp_dt
        /\ (Commits(t) /\ req[t].op = "reserve")
             => LET rid == req[t].rid
                IN /\ out'[t] = "Ok"
                   /\ Persisted' = loc[t].state
                   /\ DOMAIN Persisted' = DOMAIN Persisted \cup {rid}
                   /\ rid \notin DOMAIN Persisted
                   /\ \A r \in DOMAIN Persisted : Persisted'[r] = Persisted[r]
                   /\ Persisted'[rid].user = req[t].user
                   /\ ExpiresAt(Persisted'[rid]) = loc[t].exp_dt
                   /\ ReservedAt(Persisted'[rid]) <= clock
    ]_vars

\* C17 witness: a reserve with a deadline text has been answered Ok, its
\* entry is in the state file next to the entry of the other resource.
C17_Witness ==
  \E t \in Threads :
    /\ pc[t] = "h_unlock" /\ req[t].op = "reserve" /\ out[t] = "Ok"
    /\ req[t].text \in ValidTexts
    /\ DOMAIN Persisted = RESOURCES
    /\ Persisted[req[t].rid].user = req[t].user
    /\ ExpiresAt(Persisted[req[t].rid]) = loc[t].exp_dt

C19_FailureNoEffect ==
  [][ \A t \in Threads :
        /\ (pc[t] \in {"b_write", "h_write"} /\ pc'[t] \in {"b_fail", "h_unlock"})
             => /\ out'[t] = "StorageFailure"
                /\ fs'[STATE_FILE] = fs[STATE_FILE]
                /\ Persisted' # loc[t].state
                /\ pc[t] = "h_write" /\ req[t].op = "reserve"
                     => req[t].rid \notin DOMAIN Persisted'
                /\ pc[t] = "h_write" /\ req[t].op = "release"
                     => /\ req[t].rid \in DOMAIN Persisted'
                        /\ Persisted'[req[t].rid].user = req[t].user
                /\ pc[t] = "b_write"
                     => DOMAIN loc[t].state \subseteq DOMAIN Persisted'
                          /\ DOMAIN loc[t].state # DOMAIN Persisted'
        /\ (lock = t /\ (pc[t] = "b_fail" \/ out[t] = "StorageFailure"))
             => /\ fs'[STATE_FILE] = fs[STATE_FILE]
                /\ pc'[t] \in {pc[t], "b_wait"}
                /\ pc'[t] = "b_wait" => loc'[t] = NoLoc
    ]_vars

\* C19 witness: the save of a reserve has failed; the mapping of the request
\* holds the new entry and the state file does not.
C19_Witness ==
  \E t \in Threads :
    /\ pc[t] = "h_unlock" /\ req[t].op = "reserve" /\ out[t] = "StorageFailure"
    /\ req[t].rid \in DOMAIN loc[t].state
    /\ req[t].rid \notin DOMAIN Persisted
    /\ fs[TmpPath] = Torn

\* An entry the sweep has no expiry instant for.
NoDeadline(info) == info.expires_at \in {NoExpiry, BadExpiry}

\* C20 Entries without a usable expires_at: an entry whose expires_at is
\* missing or does not parse is kept by every sweep, at whatever instant;
\* every reserve of its resource is answered AlreadyReserved; and it leaves
\* the state file, or changes in it, only through a release by the user it
\* records.
C20_UnparsedExpiry ==
  [][ \A r \in DOMAIN Persisted :
        NoDeadline(Persisted[r])
          => /\ \A t \in Threads :
                  (pc[t] = "b_wait" /\ lock' = t)
                    => r \in DOMAIN loc'[t].state /\ loc'[t].state[r] = Persisted[r]
             /\ \A t \in Threads :
                  (EntersAs(t, "reserve") /\ req'[t].rid = r)
                    => out'[t] = "AlreadyReserved" /\ pc'[t] = "h_unlock"
             /\ (r \notin DOMAIN Persisted' \/ Persisted'[r] # Persisted[r])
                  => /\ r \notin DOMAIN Persisted'
                     /\ \E t \in Threads :
                          /\ Commits(t) /\ req[t].op = "release" /\ req[t].rid = r
                          /\ req[t].user = Persisted[r].user
    ]_vars

\* C20 witness: at the last instant of the clock, after every deadline the
\* program could have computed, a reserve by another user has been answered
\* AlreadyReserved because of an entry without a usable expires_at.
C20_Witness ==
  \E t \in Threads :
    /\ clock = Instant(NumInstants)
    /\ pc[t] = "h_unlock" /\ req[t].op = "reserve" /\ out[t] = "AlreadyReserved"
    /\ req[t].rid \in DOMAIN Persisted
    /\ NoDeadline(Persisted[req[t].rid])
    /\ Persisted[req[t].rid].user # req[t].user

====
